---- MODULE Spec2Model ----
(***************************************************************************)
(* Coptic to Latin transliterator (src/transliterator.py).                 *)
(*                                                                         *)
(* A string is a sequence of Unicode codepoints (naturals).  One call of   *)
(* CopticTransliterator.translit is a run through the stages of the        *)
(* method: NFKD normalisation, removal of combining marks, lower-casing,   *)
(* the 21 re.sub passes of _apply_contextual_rules, the str.replace loop   *)
(* over char_map, the scan for leftover codepoints of the Coptic block,    *)
(* the warning, and the return.                                            *)
(***************************************************************************)
EXTENDS Integers, Sequences, FiniteSets, TLC

VARIABLES
  char_map,   \* self.char_map: the (key, value) items in insertion order
  pc,         \* position of the running call within translit
  arg,        \* the argument the running call was given
  text,       \* the local `text` of translit, then of _apply_contextual_rules
  pass,       \* the next re.sub pass of _apply_contextual_rules (1..21)
  result,     \* the local `result` of translit
  unmapped,   \* the local `unmapped` of translit
  printed,    \* what the running call has written to stdout (list of warnings' payloads)
  ret         \* the value returned by the last completed call

vars == <<char_map, pc, arg, text, pass, result, unmapped, printed, ret>>

-----------------------------------------------------------------------------
(* Codepoints of the keys of char_map, in source order.                    *)

\* line 15: U+2C81 -> "a"
alpha == 11393
\* line 16: U+2C80 -> "A"
capAlpha == 11392
\* line 17: U+2C83 -> "b"
beta == 11395
\* line 18: U+2C82 -> "B"
capBeta == 11394
\* line 19: U+2C85 -> "g"
gamma == 11397
\* line 20: U+2C84 -> "G"
capGamma == 11396
\* line 21: U+2C87 -> "d"
delta == 11399
\* line 22: U+2C86 -> "D"
capDelta == 11398
\* line 23: U+2C89 -> "e"
epsilon == 11401
\* line 24: U+2C88 -> "E"
capEpsilon == 11400
\* line 25: U+2C8B -> "f"
sou == 11403
\* line 26: U+2C8A -> "F"
capSou == 11402
\* line 27: U+2C8D -> "z"
zeta == 11405
\* line 28: U+2C8C -> "Z"
capZeta == 11404
\* line 29: U+2C8F -> "i"
eta == 11407
\* line 30: U+2C8E -> "I"
capEta == 11406
\* line 31: U+2C91 -> "th"
theta == 11409
\* line 32: U+2C90 -> "TH"
capTheta == 11408
\* line 33: U+2C93 -> "i"
iota == 11411
\* line 34: U+2C92 -> "I"
capIota == 11410
\* line 35: U+2C95 -> "k"
kappa == 11413
\* line 36: U+2C94 -> "K"
capKappa == 11412
\* line 37: U+2C97 -> "l"
lambda == 11415
\* line 38: U+2C96 -> "L"
capLambda == 11414
\* line 39: U+2C99 -> "m"
mu == 11417
\* line 40: U+2C98 -> "M"
capMu == 11416
\* line 41: U+2C9B -> "n"
nu == 11419
\* line 42: U+2C9A -> "N"
capNu == 11418
\* line 43: U+2C9D -> "x"
xi == 11421
\* line 44: U+2C9C -> "X"
capXi == 11420
\* line 45: U+2C9F -> "o"
omicron == 11423
\* line 46: U+2C9E -> "O"
capOmicron == 11422
\* line 47: U+2CA1 -> "p"
pi == 11425
\* line 48: U+2CA0 -> "P"
capPi == 11424
\* line 49: U+2CA3 -> "r"
rho == 11427
\* line 50: U+2CA2 -> "R"
capRho == 11426
\* line 51: U+2CA5 -> "s"
sigma == 11429
\* line 52: U+2CA4 -> "S"
capSigma == 11428
\* line 53: U+2CA7 -> "t"
tau == 11431
\* line 54: U+2CA6 -> "T"
capTau == 11430
\* line 55: U+2CA9 -> "u"
upsilon == 11433
\* line 56: U+2CA8 -> "U"
capUpsilon == 11432
\* line 57: U+2CAB -> "ph"
phi == 11435
\* line 58: U+2CAA -> "PH"
capPhi == 11434
\* line 59: U+2CAD -> "ch"
chi == 11437
\* line 60: U+2CAC -> "CH"
capChi == 11436
\* line 61: U+2CAF -> "ps"
psi == 11439
\* line 62: U+2CAE -> "PS"
capPsi == 11438
\* line 63: U+2CB1 -> "o"
omega == 11441
\* line 64: U+2CB0 -> "O"
capOmega == 11440
\* line 65: U+03E3 -> "sh"
shai == 995
\* line 66: U+03E2 -> "SH"
capShai == 994
\* line 67: U+03E5 -> "f"
fai == 997
\* line 68: U+03E4 -> "F"
capFai == 996
\* line 69: U+03E7 -> "kh"
khai == 999
\* line 70: U+03E6 -> "KH"
capKhai == 998
\* line 71: U+03E9 -> "h"
hori == 1001
\* line 72: U+03E8 -> "H"
capHori == 1000
\* line 73: U+03EB -> "j"
gangia == 1003
\* line 74: U+03EA -> "J"
capGangia == 1002
\* line 75: U+03ED -> "ky"
shima == 1005
\* line 76: U+03EC -> "KY"
capShima == 1004
\* line 77: U+03EF -> "ti"
ti == 1007
\* line 78: U+03EE -> "TI"
capTi == 1006

(* self.char_map as built by __init__: items in insertion order, each a    *)
(* pair <<key codepoint, value string>>.                                   *)
CharMapItems ==
  <<
    <<alpha, <<97>>>>,
    <<capAlpha, <<65>>>>,
    <<beta, <<98>>>>,
    <<capBeta, <<66>>>>,
    <<gamma, <<103>>>>,
    <<capGamma, <<71>>>>,
    <<delta, <<100>>>>,
    <<capDelta, <<68>>>>,
    <<epsilon, <<101>>>>,
    <<capEpsilon, <<69>>>>,
    <<sou, <<102>>>>,
    <<capSou, <<70>>>>,
    <<zeta, <<122>>>>,
    <<capZeta, <<90>>>>,
    <<eta, <<105>>>>,
    <<capEta, <<73>>>>,
    <<theta, <<116, 104>>>>,
    <<capTheta, <<84, 72>>>>,
    <<iota, <<105>>>>,
    <<capIota, <<73>>>>,
    <<kappa, <<107>>>>,
    <<capKappa, <<75>>>>,
    <<lambda, <<108>>>>,
    <<capLambda, <<76>>>>,
    <<mu, <<109>>>>,
    <<capMu, <<77>>>>,
    <<nu, <<110>>>>,
    <<capNu, <<78>>>>,
    <<xi, <<120>>>>,
    <<capXi, <<88>>>>,
    <<omicron, <<111>>>>,
    <<capOmicron, <<79>>>>,
    <<pi, <<112>>>>,
    <<capPi, <<80>>>>,
    <<rho, <<114>>>>,
    <<capRho, <<82>>>>,
    <<sigma, <<115>>>>,
    <<capSigma, <<83>>>>,
    <<tau, <<116>>>>,
    <<capTau, <<84>>>>,
    <<upsilon, <<117>>>>,
    <<capUpsilon, <<85>>>>,
    <<phi, <<112, 104>>>>,
    <<capPhi, <<80, 72>>>>,
    <<chi, <<99, 104>>>>,
    <<capChi, <<67, 72>>>>,
    <<psi, <<112, 115>>>>,
    <<capPsi, <<80, 83>>>>,
    <<omega, <<111>>>>,
    <<capOmega, <<79>>>>,
    <<shai, <<115, 104>>>>,
    <<capShai, <<83, 72>>>>,
    <<fai, <<102>>>>,
    <<capFai, <<70>>>>,
    <<khai, <<107, 104>>>>,
    <<capKhai, <<75, 72>>>>,
    <<hori, <<104>>>>,
    <<capHori, <<72>>>>,
    <<gangia, <<106>>>>,
    <<capGangia, <<74>>>>,
    <<shima, <<107, 121>>>>,
    <<capShima, <<75, 89>>>>,
    <<ti, <<116, 105>>>>,
    <<capTi, <<84, 73>>>>
  >>

\* The Coptic Unicode block tested by the scan on line 97.
CopticBlockFirst == 11392
CopticBlockLast == 11519

-----------------------------------------------------------------------------
(* Unicode properties used by the code through unicodedata, str.lower and  *)
(* the \w / \b classes of re, on the codepoints the model draws from:      *)
(* ASCII, U+00E6, U+00E9, U+017F, IPA extensions U+0250-02AF, U+02D0, the  *)
(* combining marks U+0301, U+0305 and U+0307, the Coptic letters           *)
(* U+03E2-03EF, U+1E9B and the Coptic block U+2C80-2CFF.                   *)

\* One step of decomposition, as UnicodeData.txt lists it: U+00E9 is
\* "e" + U+0301, U+1E9B is U+017F + U+0307 and U+017F is "s".
DecomposeOneLevel(c) ==
  IF c = 233 THEN <<101, 769>>
  ELSE IF c = 7835 THEN <<383, 775>>
  ELSE IF c = 383 THEN <<115>>
  ELSE <<c>>

\* unicodedata.normalize("NFKD", c) for one codepoint, the full (recursive)
\* compatibility decomposition: U+00E9 gives "e" + U+0301, U+1E9B gives
\* "s" + U+0307, U+017F gives "s"; the other codepoints of the universe have
\* no decomposition.
Decompose(c) ==
  IF c = 233 THEN <<101, 769>>
  ELSE IF c = 7835 THEN <<115, 775>>
  ELSE IF c = 383 THEN <<115>>
  ELSE <<c>>

\* unicodedata.combining(c) # 0: the canonical combining class is non-zero.
IsCombining(c) == c \in {769, 773, 775} \/ c \in 11503..11505

\* str.lower() of one codepoint.
LowerCp(c) ==
  IF c \in 65..90 THEN c + 32
  ELSE IF c \in 994..1007 /\ c % 2 = 0 THEN c + 1
  ELSE IF c \in 11392..11491 /\ c % 2 = 0 THEN c + 1
  ELSE IF c \in {11499, 11501, 11506} THEN c + 1
  ELSE c

\* A word-character class that holds the letters only: no digit, no number
\* sign, no underscore.
IsWordLettersOnly(c) ==
  \/ c \in 65..90 \/ c \in 97..122
  \/ c \in {230, 233, 383, 7835} \/ c \in 592..687 \/ c = 720
  \/ c \in 994..1007
  \/ c \in 11392..11492 \/ c \in 11499..11502 \/ c \in 11506..11507

\* re's \w on str patterns: alphanumeric in Unicode, or the underscore.
IsWord(c) ==
  \/ c \in 48..57 \/ c \in 65..90 \/ c \in 97..122 \/ c = 95
  \/ c \in {230, 233, 383, 7835} \/ c \in 592..687 \/ c = 720
  \/ c \in 994..1007
  \/ c \in 11392..11492 \/ c \in 11499..11502 \/ c \in 11506..11507
  \/ c = 11517

-----------------------------------------------------------------------------
(* Strings.                                                                *)

RECURSIVE Flatten(_)
Flatten(ss) == IF ss = <<>> THEN <<>> ELSE Head(ss) \o Flatten(Tail(ss))

\* unicodedata.normalize("NFKD", text).  All marks of the universe have the
\* same combining class (230), so canonical reordering moves nothing.
NFKD(t) == Flatten([i \in 1..Len(t) |-> Decompose(t[i])])

NotCombining(c) == ~IsCombining(c)

\* "".join(c for c in text if not unicodedata.combining(c))
StripCombining(t) == SelectSeq(t, NotCombining)

\* text.lower()
Lower(t) == [i \in 1..Len(t) |-> LowerCp(t[i])]

-----------------------------------------------------------------------------
(* Regular expressions of _apply_contextual_rules.  Each pattern is a      *)
(* literal sequence `pat` that is consumed, optionally followed by a       *)
(* lookahead (?=...): a sequence `look` of character classes and, with     *)
(* `wb`, a \b after them.                                                  *)

Rx(p, l, w, r) == [pat |-> p, look |-> l, wb |-> w, repl |-> r]

\* \b under re.ASCII: only [a-zA-Z0-9_] count as word characters.
BoundaryAscii(t, k) ==
  LET W(j) == /\ j \in 1..Len(t)
              /\ (t[j] \in 48..57 \/ t[j] \in 65..90 \/ t[j] \in 97..122 \/ t[j] = 95)
  IN  W(k - 1) # W(k)

\* Whether position k (1..Len(t)) holds a \w character.
WordAt(t, k) == k \in 1..Len(t) /\ IsWord(t[k])

\* \b between t[k-1] and t[k]: exactly one side is a \w character.
Boundary(t, k) == WordAt(t, k - 1) # WordAt(t, k)

\* MatchAt with the \b of the lookahead left out.
MatchAtNoBoundary(rx, t, i) ==
  LET n == Len(rx.pat)
      m == Len(rx.look)
  IN  /\ i + n + m - 1 <= Len(t)
      /\ \A k \in 1..n : t[i + k - 1] = rx.pat[k]
      /\ \A k \in 1..m : t[i + n + k - 1] \in rx.look[k]

\* Whether rx matches with its first consumed character at position i.
MatchAt(rx, t, i) ==
  LET n == Len(rx.pat)
      m == Len(rx.look)
  IN  /\ i + n + m - 1 <= Len(t)
      /\ \A k \in 1..n : t[i + k - 1] = rx.pat[k]
      /\ \A k \in 1..m : t[i + n + k - 1] \in rx.look[k]
      /\ rx.wb => Boundary(t, i + n + m)

\* A scan that resumes one character after the start of a match, so that
\* matches may overlap.
RECURSIVE ScanOverlapping(_, _, _)
ScanOverlapping(rx, t, i) ==
  IF i > Len(t) THEN <<>>
  ELSE IF MatchAt(rx, t, i) THEN rx.repl \o ScanOverlapping(rx, t, i + 1)
  ELSE <<t[i]>> \o ScanOverlapping(rx, t, i + 1)

\* re.sub / str.replace: leftmost, non-overlapping matches, left to right.
RECURSIVE Scan(_, _, _)
Scan(rx, t, i) ==
  IF i > Len(t) THEN <<>>
  ELSE IF MatchAt(rx, t, i) THEN rx.repl \o Scan(rx, t, i + Len(rx.pat))
  ELSE <<t[i]>> \o Scan(rx, t, i + 1)

ReSub(rx, t) == Scan(rx, t, 1)

\* str.replace with count=1: only the first occurrence is replaced.
RECURSIVE ScanOnce(_, _, _)
ScanOnce(rx, t, i) ==
  IF i > Len(t) THEN <<>>
  ELSE IF MatchAt(rx, t, i)
       THEN rx.repl \o SubSeq(t, i + Len(rx.pat), Len(t))
  ELSE <<t[i]>> \o ScanOnce(rx, t, i + 1)

StrReplaceFirst(t, old, new) == ScanOnce(Rx(old, <<>>, FALSE, new), t, 1)

\* result.replace(old, new)
StrReplace(t, old, new) == Scan(Rx(old, <<>>, FALSE, new), t, 1)

\* lines 106-109: alpha
AlphaRules ==
  <<
    Rx(<<alpha>>, <<{sigma}>>, TRUE, <<230>>),          \* 107: U+00E6
    Rx(<<alpha>>, <<>>, TRUE, <<601>>),                 \* 108: U+0259
    Rx(<<alpha>>, <<>>, FALSE, <<593, 720>>)            \* 109: U+0251 U+02D0
  >>

\* The beta rules with line 115 looking for sigma, as line 116 does, in
\* place of rho.
BetaRulesNoRho ==
  <<
    Rx(<<beta>>, <<{iota}, {mu}>>, TRUE, <<98>>),
    Rx(<<beta>>, <<{tau}>>, TRUE, <<118>>),
    Rx(<<beta>>, <<{alpha, omicron, omega, iota, eta, epsilon}>>, FALSE, <<118>>),
    Rx(<<beta>>, <<{sigma}>>, FALSE, <<98>>),
    Rx(<<beta>>, <<{sigma}>>, FALSE, <<98>>),
    Rx(<<beta>>, <<>>, TRUE, <<98>>)
  >>

\* The beta rules with the vowel rule of line 114 ahead of the rule of
\* line 112.
BetaRulesVowelFirst ==
  <<
    Rx(<<beta>>, <<{alpha, omicron, omega, iota, eta, epsilon}>>, FALSE, <<118>>),
    Rx(<<beta>>, <<{tau}>>, TRUE, <<118>>),
    Rx(<<beta>>, <<{iota}, {mu}>>, TRUE, <<98>>),
    Rx(<<beta>>, <<{rho}>>, FALSE, <<98>>),
    Rx(<<beta>>, <<{sigma}>>, FALSE, <<98>>),
    Rx(<<beta>>, <<>>, TRUE, <<98>>)
  >>

\* lines 111-117: beta
BetaRules ==
  <<
    Rx(<<beta>>, <<{iota}, {mu}>>, TRUE, <<98>>),       \* 112: "b"
    Rx(<<beta>>, <<{tau}>>, TRUE, <<118>>),             \* 113: "v"
    Rx(<<beta>>, <<{alpha, omicron, omega, iota, eta, epsilon}>>, FALSE, <<118>>), \* 114: "v"
    Rx(<<beta>>, <<{rho}>>, FALSE, <<98>>),             \* 115: "b"
    Rx(<<beta>>, <<{sigma}>>, FALSE, <<98>>),           \* 116: "b"
    Rx(<<beta>>, <<>>, TRUE, <<98>>)                    \* 117: "b"
  >>

\* lines 119-123: gamma
GammaRules ==
  <<
    Rx(<<gamma>>, <<{gamma}>>, FALSE, <<110>>),         \* 120: "n"
    Rx(<<gamma>>, <<{iota}>>, FALSE, <<103>>),          \* 121: "g"
    Rx(<<gamma>>, <<{epsilon}>>, FALSE, <<103>>),       \* 122: "g"
    Rx(<<gamma>>, <<>>, FALSE, <<103, 104>>)            \* 123: "gh"
  >>

\* lines 125-130: epsilon and eta
EtaRules ==
  <<
    Rx(<<epsilon, eta>>, <<>>, FALSE, <<101, 121>>),    \* 126: "ey"
    Rx(<<epsilon>>, <<{omicron}>>, FALSE, <<101, 618>>),\* 129: "e" U+026A
    Rx(<<eta>>, <<>>, FALSE, <<101, 101>>)              \* 130: "ee"
  >>

\* The sequence rules with line 137 repeating the pattern of line 136 in
\* place of omicron upsilon omega.
SequenceRulesNoOuo ==
  <<
    Rx(<<kappa, kappa>>, <<>>, FALSE, <<107, 107>>),
    Rx(<<mu, mu>>, <<>>, FALSE, <<109, 109>>),
    Rx(<<nu, nu>>, <<>>, FALSE, <<110, 110>>),
    Rx(<<omicron, iota, alpha>>, <<>>, FALSE, <<105, 97>>),
    Rx(<<omicron, iota, alpha>>, <<>>, FALSE, <<105, 97>>)
  >>

\* The sequence rules with omicron upsilon, a prefix of the pattern of
\* line 137, as the pattern of line 136.
SequenceRulesWithOu ==
  <<
    Rx(<<kappa, kappa>>, <<>>, FALSE, <<107, 107>>),
    Rx(<<mu, mu>>, <<>>, FALSE, <<109, 109>>),
    Rx(<<nu, nu>>, <<>>, FALSE, <<110, 110>>),
    Rx(<<omicron, upsilon>>, <<>>, FALSE, <<111, 117>>),
    Rx(<<omicron, upsilon, omega>>, <<>>, FALSE, <<111, 39, 111>>)
  >>

\* lines 132-137: multi-character sequences
SequenceRules ==
  <<
    Rx(<<kappa, kappa>>, <<>>, FALSE, <<107, 107>>),    \* 133: "kk"
    Rx(<<mu, mu>>, <<>>, FALSE, <<109, 109>>),          \* 134: "mm"
    Rx(<<nu, nu>>, <<>>, FALSE, <<110, 110>>),          \* 135: "nn"
    Rx(<<omicron, iota, alpha>>, <<>>, FALSE, <<105, 97>>),        \* 136: "ia"
    Rx(<<omicron, upsilon, omega>>, <<>>, FALSE, <<111, 39, 111>>) \* 137: "o'o"
  >>

\* The 21 re.sub calls of _apply_contextual_rules, in source order.
Rules == AlphaRules \o BetaRules \o GammaRules \o EtaRules \o SequenceRules

NumRules == Len(Rules)

\* The text after passes 1..n of _apply_contextual_rules.
RECURSIVE RulesUpTo(_, _)
RulesUpTo(n, t) == IF n = 0 THEN t ELSE ReSub(Rules[n], RulesUpTo(n - 1, t))

\* _apply_contextual_rules(text)
ApplyContextualRules(t) == RulesUpTo(NumRules, t)

\* for coptic_char, latin_char in self.char_map.items():
\*     result = result.replace(coptic_char.lower(), latin_char.lower())
\* MapRange runs the iterations lo..hi of the loop on r, in order: first the
\* iterations lo..mid, then the iterations mid+1..hi on what they produced.
\* The intermediate string is drawn from a singleton, so that TLC computes
\* it once before it goes on.
RECURSIVE MapRange(_, _, _, _)
MapRange(items, lo, hi, r) ==
  IF lo > hi THEN r
  ELSE IF lo = hi
    THEN StrReplace(r, Lower(<<items[lo][1]>>), Lower(items[lo][2]))
  ELSE CHOOSE out \in
         { MapRange(items, ((lo + hi) \div 2) + 1, hi, r1) :
             r1 \in { MapRange(items, lo, (lo + hi) \div 2, r) } } : TRUE

\* The iterations k, k+1, ... of the loop, to its end.
MapItems(items, k, r) == MapRange(items, k, Len(items), r)

NotBetaItem(item) == item[1] \notin {beta, capBeta}

\* The loop over a char_map that has no entry for beta.
BaseMapNoBeta(items, r) == MapItems(SelectSeq(items, NotBetaItem), 1, r)

\* The loop over the entries whose key lies in the Coptic block only.
KeyInBlock(item) == item[1] \in CopticBlockFirst..CopticBlockLast
BaseMapBlockOnly(items, r) == MapItems(SelectSeq(items, KeyInBlock), 1, r)

\* The loop over all items, first to last.
BaseMap(items, r) == MapItems(items, 1, r)

InCopticBlock(c) == c >= CopticBlockFirst /\ c <= CopticBlockLast

InsideCopticBlock(c) == c > CopticBlockFirst /\ c < CopticBlockLast

\* The scan with both comparisons strict.
UnmappedExclusive(r) == SelectSeq(r, InsideCopticBlock)

\* "".join(c for c in result if ord(c) >= 0x2C80 and ord(c) <= 0x2CFF)
Unmapped(r) == SelectSeq(r, InCopticBlock)

\* translit(text) as one function: what the stages compose to.
Translit(items, s) ==
  BaseMap(items, ApplyContextualRules(Lower(StripCombining(NFKD(s)))))

-----------------------------------------------------------------------------
(* Inputs.                                                                 *)

\* Longest input drawn from an alphabet.
MaxLen == 3

Words(A, n) == UNION {[1..k -> A] : k \in 0..n}

\* The examples offered by the application (src/app.py, example_texts).
Examples ==
  { <<pi, nu, omicron, upsilon, tau, epsilon>>,
    <<tau, epsilon, kappa, kappa, lambda, eta, sigma, iota, alpha>>,
    <<alpha, gamma, alpha, pi, eta>> }

\* Mixed text: letters with and without contextual rules, an upper-case
\* letter, a space, Latin "x", U+00E9, the combining overline U+0305, the
\* Coptic combining mark U+2CEF, the unmapped Coptic letters U+2CC0/U+2CC1
\* and the last codepoint of the block, U+2CFF (a punctuation mark).
MixedAlphabet ==
  {alpha, beta, pi, capTheta, 32, 120, 233, 773, 11503, 11456, 11457, 11519}

Inputs == Words(MixedAlphabet, MaxLen) \cup Examples

-----------------------------------------------------------------------------
(* The state machine.                                                      *)

Init ==
  /\ char_map = CharMapItems
  /\ pc = "idle"
  /\ arg = <<>>
  /\ text = <<>>
  /\ pass = 1
  /\ result = <<>>
  /\ unmapped = <<>>
  /\ printed = <<>>
  /\ ret = <<>>

\* translit(s) is called on the module-level instance.
Call(s) ==
  /\ pc = "idle"
  /\ arg' = s
  /\ text' = s
  /\ pass' = 1
  /\ result' = <<>>
  /\ unmapped' = <<>>
  /\ printed' = <<>>
  /\ ret' = <<>>
  /\ pc' = "normalize"
  /\ UNCHANGED char_map

\* line 86
Normalize ==
  /\ pc = "normalize"
  /\ text' = NFKD(text)
  /\ pc' = "strip"
  /\ UNCHANGED <<char_map, arg, pass, result, unmapped, printed, ret>>

\* line 88
Strip ==
  /\ pc = "strip"
  /\ text' = StripCombining(text)
  /\ pc' = "lower"
  /\ UNCHANGED <<char_map, arg, pass, result, unmapped, printed, ret>>

\* A call that passes the text to the rules as it is, without lower().
EnterRulesNoLower ==
  /\ pc = "lower"
  /\ text' = text
  /\ pass' = 1
  /\ pc' = "rules"
  /\ UNCHANGED <<char_map, arg, result, unmapped, printed, ret>>

\* line 90: text.lower() is passed to _apply_contextual_rules
EnterRules ==
  /\ pc = "lower"
  /\ text' = Lower(text)
  /\ pass' = 1
  /\ pc' = "rules"
  /\ UNCHANGED <<char_map, arg, result, unmapped, printed, ret>>

\* lines 107-137: the next re.sub pass over the whole text
RulePass ==
  /\ pc = "rules"
  /\ pass <= NumRules
  /\ text' = ReSub(Rules[pass], text)
  /\ pass' = pass + 1
  /\ UNCHANGED <<char_map, pc, arg, result, unmapped, printed, ret>>

\* lines 139 and 90: the rewritten text becomes `result`
ExitRules ==
  /\ pc = "rules"
  /\ pass > NumRules
  /\ result' = text
  /\ pc' = "map"
  /\ UNCHANGED <<char_map, arg, text, pass, unmapped, printed, ret>>

\* A loop that pops from char_map every entry it has applied.
BaseMapperConsuming ==
  /\ pc = "map"
  /\ result' = BaseMap(char_map, result)
  /\ char_map' = SelectSeq(char_map,
                    LAMBDA item :
                      \A i \in 1..Len(result) : result[i] # LowerCp(item[1]))
  /\ pc' = "validate"
  /\ UNCHANGED <<arg, text, pass, unmapped, printed, ret>>

\* lines 93-94: the whole loop over char_map
BaseMapper ==
  /\ pc = "map"
  /\ result' = BaseMap(char_map, result)
  /\ pc' = "validate"
  /\ UNCHANGED <<char_map, arg, text, pass, unmapped, printed, ret>>

\* A scan whose warning is printed whether or not anything was found.
ValidateAlwaysWarns ==
  /\ pc = "validate"
  /\ unmapped' = Unmapped(result)
  /\ printed' = Append(printed, unmapped')
  /\ pc' = "return"
  /\ UNCHANGED <<char_map, arg, text, pass, result, ret>>

\* lines 97-99: the scan and the warning
Validate ==
  /\ pc = "validate"
  /\ unmapped' = Unmapped(result)
  /\ printed' = IF unmapped' # <<>> THEN Append(printed, unmapped') ELSE printed
  /\ pc' = "return"
  /\ UNCHANGED <<char_map, arg, text, pass, result, ret>>

\* A return that hands back nothing once the warning has been printed.
ReturnNothingAfterWarning ==
  /\ pc = "return"
  /\ ret' = IF printed # <<>> THEN <<>> ELSE result
  /\ pc' = "done"
  /\ UNCHANGED <<char_map, arg, text, pass, result, unmapped, printed>>

\* line 100
Return ==
  /\ pc = "return"
  /\ ret' = result
  /\ pc' = "done"
  /\ UNCHANGED <<char_map, arg, text, pass, result, unmapped, printed>>

\* The caller has taken the returned string; the instance waits for the
\* next call.  Nothing of the finished call is kept but char_map.
Idle ==
  /\ pc = "done"
  /\ pc' = "idle"
  /\ arg' = <<>>
  /\ text' = <<>>
  /\ pass' = 1
  /\ result' = <<>>
  /\ unmapped' = <<>>
  /\ printed' = <<>>
  /\ ret' = <<>>
  /\ UNCHANGED char_map

Steps ==
  \/ Normalize
  \/ Strip
  \/ EnterRules
  \/ RulePass
  \/ ExitRules
  \/ BaseMapper
  \/ Validate
  \/ Return
  \/ Idle

\* The guard of Call is repeated outside the quantifier, where it is evaluated once.
CallMixed == pc = "idle" /\ \E s \in Inputs : Call(s)

Next == CallMixed \/ Steps

Spec == Init /\ [][Next]_vars

-----------------------------------------------------------------------------
(* Helpers of the properties.                                              *)

Range(t) == {t[i] : i \in 1..Len(t)}

\* The text the rule engine receives for the running call.
Lowered == Lower(StripCombining(NFKD(arg)))

\* self.char_map[c] for a key c.
MapValue(c) ==
  LET k == CHOOSE k \in 1..Len(char_map) : char_map[k][1] = c
  IN  char_map[k][2]

Keys == {char_map[k][1] : k \in 1..Len(char_map)}

LowerKeys == {c \in Keys : LowerCp(c) = c}

\* Whether p occurs in t starting at position i.
OccursAt(t, p, i) ==
  /\ i + Len(p) - 1 <= Len(t)
  /\ \A k \in 1..Len(p) : t[i + k - 1] = p[k]

\* Number of (possibly overlapping) occurrences of p in t.
Occurrences(t, p) == Cardinality({i \in 1..Len(t) : OccursAt(t, p, i)})

-----------------------------------------------------------------------------
(* Text of letters that have no contextual rule of their own.              *)

MaxLenPlain == 3

\* epsilon, omicron, upsilon, omega (parts of the multi-letter rules 15 and
\* 21), kappa and nu (doubling rules 17 and 19), pi and tau, theta (a two
\* letter value) and ti (a key outside the Coptic block).
PlainAlphabet ==
  {epsilon, omicron, upsilon, omega, kappa, nu, pi, tau, theta, ti}

PlainInputs == Words(PlainAlphabet, MaxLenPlain) \cup Examples

CallPlain == pc = "idle" /\ \E s \in PlainInputs : Call(s)

NextPlain == CallPlain \/ Steps

SpecPlain == Init /\ [][NextPlain]_vars

\* Lower-case Coptic letters only, none of which a contextual rule rewrites.
NoRuleRewrites(s) ==
  /\ Range(s) \subseteq LowerKeys \ {alpha, beta, gamma, eta}
  /\ \A i \in 1..Len(s) : ~OccursAt(s, <<epsilon, omicron>>, i)
  /\ \A i \in 1..Len(s) : ~OccursAt(s, <<omicron, upsilon, omega>>, i)

\* C1: for an input of lower-case Coptic letters that no contextual rule
\* rewrites, translit returns the concatenation, in input order, of the
\* char_map value of each letter; translit of pi nu omicron upsilon tau
\* epsilon is "pnoute".
C1_PlainLettersMapped ==
  pc = "done" =>
    /\ NoRuleRewrites(arg) =>
         ret = Flatten([i \in 1..Len(arg) |-> MapValue(arg[i])])
    /\ arg = <<pi, nu, omicron, upsilon, tau, epsilon>> =>
         ret = <<112, 110, 111, 117, 116, 101>>

C1_Witness ==
  /\ pc = "done"
  /\ arg = <<pi, nu, omicron, upsilon, tau, epsilon>>
  /\ NoRuleRewrites(arg)
  /\ ret = <<112, 110, 111, 117, 116, 101>>

-----------------------------------------------------------------------------
(* The example alpha gamma alpha pi eta.                                   *)

Agape == <<alpha, gamma, alpha, pi, eta>>

\* C2 as stated: translit of alpha gamma alpha pi eta is U+0251 U+02D0, "g",
\* U+0259, "p", "ee" (the second alpha word-final, the gamma "g").
C2_Original ==
  pc = "done" /\ arg = Agape => ret = <<593, 720, 103, 601, 112, 101, 101>>

\* C2 (amended): neither alpha of alpha gamma alpha pi eta ends a word and
\* the gamma is followed by neither gamma, iota nor epsilon, so both alphas
\* take the elsewhere rule and the gamma becomes "gh": the result is
\* U+0251 U+02D0, "gh", U+0251 U+02D0, "p", "ee".
C2_AgapeResult ==
  pc = "done" /\ arg = Agape =>
    ret = <<593, 720, 103, 104, 593, 720, 112, 101, 101>>

C2_Witness ==
  pc = "done" /\ arg = Agape /\ Len(ret) = 9 /\ unmapped = <<>>

-----------------------------------------------------------------------------
(* Text around alpha: the three alpha rules (lines 107-109) and the        *)
(* literal omicron iota alpha (line 136).                                  *)

MaxLenAlpha == 4

\* alpha in both cases, sigma, omicron and iota, a space and an underscore.
AlphaAlphabet == {alpha, capAlpha, sigma, omicron, iota, 32, 95}

AlphaInputs == Words(AlphaAlphabet, MaxLenAlpha) \cup Examples

CallAlpha == pc = "idle" /\ \E s \in AlphaInputs : Call(s)

NextAlpha == CallAlpha \/ Steps

SpecAlpha == Init /\ [][NextAlpha]_vars

\* Position i holds the last character of a word of t.
WordFinal(t, i) == i = Len(t) \/ ~IsWord(t[i + 1])

\* The three cases of C3 for the alpha at position i of t.
AlphaCase(t, i) ==
  IF WordFinal(t, i) THEN <<601>>
  ELSE IF t[i + 1] = sigma /\ WordFinal(t, i + 1) THEN <<230>>
  ELSE <<593, 720>>

\* C3: every alpha is rewritten by exactly one of three cases: the last
\* character of a word becomes U+0259; an alpha followed by a sigma that is
\* the last character of a word becomes U+00E6 (alpha sigma gives U+00E6
\* "s"); every other alpha becomes U+0251 U+02D0.  Checked on the text right
\* after pass 3, and on the returned string where no other rule applies.
C3_AlphaThreeCases ==
  /\ pc = "rules" /\ pass = 4 =>
       text = Flatten([i \in 1..Len(Lowered) |->
                IF Lowered[i] = alpha THEN AlphaCase(Lowered, i)
                ELSE <<Lowered[i]>>])
  /\ pc = "done" /\ Range(Lowered) \subseteq {alpha, sigma, omicron, iota, 32, 95} =>
       ret = Flatten([i \in 1..Len(Lowered) |->
               IF Lowered[i] = alpha THEN AlphaCase(Lowered, i)
               ELSE IF Lowered[i] \in Keys THEN MapValue(Lowered[i])
               ELSE <<Lowered[i]>>])
  /\ pc = "done" /\ arg = <<alpha, sigma>> => ret = <<230, 115>>

\* Two of the cases in one call: alpha sigma, then a space, then alpha.
C3_Witness ==
  /\ pc = "done"
  /\ arg = <<alpha, sigma, 32, alpha>>
  /\ ret = <<230, 115, 32, 601>>

\* C4 as stated: the literal omicron iota alpha is transliterated to "ia".
C4_Original ==
  pc = "done" /\ arg = <<omicron, iota, alpha>> => ret = <<105, 97>>

-----------------------------------------------------------------------------
(* Text around beta: the six beta rules (lines 112-117).                   *)

MaxLenBeta == 3

\* beta, the six letters of the class on line 114, mu, tau, rho and sigma
\* from the other lookaheads, and a space.
BetaAlphabet ==
  {beta, alpha, omicron, omega, iota, eta, epsilon, mu, tau, rho, sigma, 32}

\* Also beta iota mu followed by one more character: the \b of line 112.
BetaInputs ==
  Words(BetaAlphabet, MaxLenBeta)
    \cup {<<beta, iota, mu, c>> : c \in BetaAlphabet}
    \cup Examples

CallBeta == pc = "idle" /\ \E s \in BetaInputs : Call(s)

NextBeta == CallBeta \/ Steps

SpecBeta == Init /\ [][NextBeta]_vars

\* Where the character at position i of t stands in the text after the
\* alpha rules: each earlier alpha of the elsewhere case has become two
\* characters, every other character one.
PosAfterAlpha(t, i) ==
  i + Cardinality({j \in 1..(i - 1) :
                     t[j] = alpha /\ AlphaCase(t, j) = <<593, 720>>})

\* beta at position i of t is followed by iota mu at the end of a word.
BeforeFinalIotaMu(t, i) ==
  /\ i + 2 <= Len(t)
  /\ t[i + 1] = iota
  /\ t[i + 2] = mu
  /\ WordFinal(t, i + 2)

\* C5 as stated: a beta immediately followed by alpha, omicron, omega, iota,
\* eta or epsilon is transliterated as "v", unless it is followed by iota mu
\* at a word boundary.  Checked on the text right after the beta rules.
C5_Original ==
  pc = "rules" /\ pass = 10 =>
    \A i \in 1..(Len(Lowered) - 1) :
      /\ Lowered[i] = beta
      /\ Lowered[i + 1] \in {alpha, omicron, omega, iota, eta, epsilon}
      /\ ~BeforeFinalIotaMu(Lowered, i)
      => text[PosAfterAlpha(Lowered, i)] = 118

\* C5 for the five letters other than alpha: what remains true of line 114.
C5_HoldsForOtherFive ==
  pc = "rules" /\ pass = 10 =>
    \A i \in 1..(Len(Lowered) - 1) :
      /\ Lowered[i] = beta
      /\ Lowered[i + 1] \in {omicron, omega, iota, eta, epsilon}
      /\ ~BeforeFinalIotaMu(Lowered, i)
      => text[PosAfterAlpha(Lowered, i)] = 118

\* C6 as stated: when the rule engine has run all its passes and the Base
\* Mapper has not started, the text contains no raw beta.
C6_Original ==
  pc = "map" => beta \notin Range(result)

\* C6 (amended): when the rule engine has run all its passes, a raw beta can
\* remain, but only one that is directly followed by a word character other
\* than omicron, omega, iota, epsilon, rho and sigma; the char_map entry for
\* beta then turns it into "b", so the returned string holds no raw beta.
C6_RawBetaOnlyBeforeOtherLetters ==
  /\ pc = "map" =>
       \A i \in 1..Len(result) :
         result[i] = beta =>
           /\ i < Len(result)
           /\ IsWord(result[i + 1])
           /\ result[i + 1] \notin {omicron, omega, iota, epsilon, rho, sigma}
  /\ pc = "done" =>
       /\ beta \notin Range(ret)
       /\ Occurrences(ret, <<98>>) >= Occurrences(text, <<beta>>)

\* beta before mu stays raw through the rule engine and is mapped to "b".
C6_Witness ==
  /\ pc = "done"
  /\ arg = <<beta, mu>>
  /\ text = <<beta, mu>>
  /\ ret = <<98, 109>>

-----------------------------------------------------------------------------
(* Text of alpha, beta, gamma and eta in both cases.                       *)

MaxLenABGE == 4

ABGE == {alpha, beta, gamma, eta, capAlpha, capBeta, capGamma, capEta}

ABGEInputs == Words(ABGE, MaxLenABGE) \cup Examples

CallABGE == pc = "idle" /\ \E s \in ABGEInputs : Call(s)

NextABGE == CallABGE \/ Steps

SpecABGE == Init /\ [][NextABGE]_vars

\* C7: for an input made only of alpha, beta, gamma and eta, in either case,
\* the returned string contains no Coptic alpha, beta, gamma or eta.
C7_NoRawABGE ==
  pc = "done" /\ Range(arg) \subseteq ABGE => Range(ret) \cap ABGE = {}

\* beta alpha gamma eta: the beta is left to char_map, the others to rules.
C7_Witness ==
  /\ pc = "done"
  /\ arg = <<beta, capAlpha, gamma, eta>>
  /\ ret = <<98, 593, 720, 103, 104, 101, 101>>

-----------------------------------------------------------------------------
(* Unmapped characters and the warning (lines 96-100), on mixed text.      *)

\* The characters the patterns of the contextual rules consume.
RulePatternChars == UNION {Range(Rules[k].pat) : k \in 1..NumRules}

\* A codepoint outside both the rule set and char_map.
Foreign(c) == c \notin Keys /\ c \notin RulePatternChars

\* C8 as stated: an input containing a codepoint that no contextual rule
\* matches and that is no key of char_map yields a non-empty returned string
\* in which that codepoint appears unchanged, and the warning is printed.
C8_Original ==
  pc = "done" =>
    \A i \in 1..Len(arg) :
      Foreign(arg[i]) =>
        /\ ret # <<>>
        /\ arg[i] \in Range(ret)
        /\ printed # <<>>

\* Normalisation, mark stripping and lower-casing leave c as it is.
Stable(c) == Decompose(c) = <<c>> /\ ~IsCombining(c) /\ LowerCp(c) = c

\* C8 (amended): an input containing a codepoint of the Coptic block
\* U+2C80-U+2CFF that no contextual rule matches, that is no key of char_map
\* and that normalisation, mark stripping and lower-casing leave unchanged
\* (not a combining mark, not an upper-case letter) yields a non-empty
\* returned string in which that codepoint appears unchanged, and the
\* warning is printed and lists it.
C8_BlockCodepointPassedThrough ==
  pc = "done" =>
    \A i \in 1..Len(arg) :
      Foreign(arg[i]) /\ InCopticBlock(arg[i]) /\ Stable(arg[i]) =>
        /\ ret # <<>>
        /\ arg[i] \in Range(ret)
        /\ Len(printed) = 1
        /\ arg[i] \in Range(printed[1])

\* pi followed by the unmapped letter U+2CC1.
C8_Witness ==
  /\ pc = "done"
  /\ arg = <<pi, 11457>>
  /\ Foreign(11457) /\ InCopticBlock(11457) /\ Stable(11457)
  /\ ret = <<112, 11457>>
  /\ printed = << <<11457>> >>

\* C9: the warning is printed if and only if the string about to be returned
\* contains a codepoint in U+2C80-U+2CFF; it lists exactly those codepoints,
\* in order; and in both cases the returned string is the base-mapped output
\* of the rule engine.
C9_WarningIffBlockCodepoint ==
  pc = "done" =>
    /\ printed # <<>> <=> (\E i \in 1..Len(ret) : InCopticBlock(ret[i]))
    /\ printed # <<>> => printed = <<SelectSeq(ret, InCopticBlock)>>
    /\ ret = BaseMap(char_map, text)

\* U+2CFF, pi, U+2CC1: two leftover codepoints are listed in order, and the
\* mapped string is returned all the same.
C9_Witness ==
  /\ pc = "done"
  /\ arg = <<11519, pi, 11457>>
  /\ printed = << <<11519, 11457>> >>
  /\ ret = <<11519, 112, 11457>>

-----------------------------------------------------------------------------
(* Text around omicron upsilon omega (line 137).                           *)

MaxLenOuo == 5

\* The three letters of the sequence, epsilon (line 129 looks ahead to an
\* omicron) and a space.
OuoAlphabet == {omicron, upsilon, omega, epsilon, 32}

Ouo == <<omicron, upsilon, omega>>

\* Also the sequence between any two characters of the other alphabets.
OuoInputs ==
  Words(OuoAlphabet, MaxLenOuo)
    \cup {<<c>> \o Ouo \o <<d>> :
            c, d \in MixedAlphabet \cup BetaAlphabet \cup {capOmicron, kappa}}
    \cup Examples

CallOuo == pc = "idle" /\ \E s \in OuoInputs : Call(s)

NextOuo == CallOuo \/ Steps

SpecOuo == Init /\ [][NextOuo]_vars

\* Occurrences in t of omicron or omega, upsilon, omicron or omega: the
\* letter sequences whose base-map rendering is "ouo".
OuoLike(t) ==
  Cardinality({i \in 1..(Len(t) - 2) :
                 /\ t[i] \in {omicron, omega}
                 /\ t[i + 1] = upsilon
                 /\ t[i + 2] \in {omicron, omega}})

\* C10: each occurrence of omicron upsilon omega in the input, whatever
\* precedes or follows it, appears in the output as "o'o" and never as
\* "ouo"; alone, the sequence gives "o'o".  (The inputs hold no Latin "o",
\* "u" or apostrophe of their own.)
C10_OuoBecomesOApostropheO ==
  pc = "done" /\ Range(arg) \cap {111, 117, 39} = {} =>
    /\ Occurrences(Lowered, Ouo) >= Occurrences(arg, Ouo)
    /\ Occurrences(ret, <<111, 39, 111>>) = Occurrences(Lowered, Ouo)
    /\ Occurrences(ret, <<111, 117, 111>>) = OuoLike(Lowered) - Occurrences(Lowered, Ouo)
    /\ arg = Ouo => ret = <<111, 39, 111>>

\* The sequence after an epsilon and before an upsilon and an omicron.
C10_Witness ==
  /\ pc = "done"
  /\ arg = <<epsilon, omicron, upsilon, omega, upsilon>>
  /\ ret = <<101, 618, 111, 39, 111, 117>>

-----------------------------------------------------------------------------
(* Runs of kappa, mu and nu (lines 133-135).                               *)

MaxLenDouble == 5

DoubleAlphabet == {kappa, mu, nu, 32}

DoubleInputs == Words(DoubleAlphabet, MaxLenDouble) \cup Examples

CallDouble == pc = "idle" /\ \E s \in DoubleInputs : Call(s)

NextDouble == CallDouble \/ Steps

SpecDouble == Init /\ [][NextDouble]_vars

\* s is a run of one or more copies of c.
IsRunOf(s, c) == Len(s) >= 1 /\ Range(s) = {c}

\* The Latin letters "k", "m", "n" of kappa, mu, nu.
LatinOf(c) == IF c = kappa THEN 107 ELSE IF c = mu THEN 109 ELSE 110

\* C11: kappa kappa, mu mu and nu nu give "kk", "mm" and "nn", and a run of
\* n >= 1 copies of one of these letters gives n copies of its Latin letter.
C11_RunsKeepTheirLength ==
  pc = "done" =>
    /\ arg = <<kappa, kappa>> => ret = <<107, 107>>
    /\ arg = <<mu, mu>> => ret = <<109, 109>>
    /\ arg = <<nu, nu>> => ret = <<110, 110>>
    /\ \A c \in {kappa, mu, nu} :
         IsRunOf(arg, c) => ret = [i \in 1..Len(arg) |-> LatinOf(c)]

\* Three kappas: line 133 rewrites the first two, char_map the third.
C11_Witness ==
  /\ pc = "done"
  /\ arg = <<kappa, kappa, kappa>>
  /\ text = <<107, 107, kappa>>
  /\ ret = <<107, 107, 107>>

-----------------------------------------------------------------------------
(* The Normalizer: lines 86-88.                                            *)

MaxLenNorm == 3

NormAlphabet == {alpha, capAlpha, 120, 233, 383, 7835, 773, 775, 11503}

NormInputs == Words(NormAlphabet, MaxLenNorm) \cup Examples

CallNorm == pc = "idle" /\ \E s \in NormInputs : Call(s)

NextNorm == CallNorm \/ Steps

SpecNorm == Init /\ [][NextNorm]_vars

\* Lines 86-88: decompose, then drop the combining marks.
Normalizer(t) == StripCombining(NFKD(t))

\* C12: the Normalizer is idempotent: normalising the normalised text once
\* more changes nothing.
C12_NormalizerIdempotent ==
  pc = "lower" =>
    /\ text = Normalizer(arg)
    /\ Normalizer(text) = text

\* U+1E9B, an overline and alpha: the letter decomposes in two steps, both
\* marks are dropped.
C12_Witness ==
  /\ pc = "lower"
  /\ arg = <<7835, 773, alpha>>
  /\ text = <<115, alpha>>

-----------------------------------------------------------------------------
(* Calls one after another on the one instance of line 143.                *)

------------------------------------------------------------------------

-----------------------------------------------------------------------------
(* Totality.                                                               *)

MaxLenTotal == 2

\* One codepoint of every kind the stages distinguish: letters with rules,
\* a capital, precomposed letters, a combining mark, a block codepoint
\* without an entry, Latin, a digit and a space.
TotalAlphabet ==
  {alpha, beta, capTheta, shai, 233, 7835, 773, 11457, 120, 49, 32}

TotalInputs == Words(TotalAlphabet, MaxLenTotal) \cup Examples

CallTotal == pc = "idle" /\ \E s \in TotalInputs : Call(s)

NextTotal == CallTotal \/ Steps

\* A call that has started keeps running: the stages are straight-line code
\* and loops over finite collections.
SpecTotal == Init /\ [][NextTotal]_vars /\ WF_vars(Steps)

\* C14: every call that starts runs through to its return, whatever the
\* input, and the empty string is returned for the empty string with nothing
\* printed.
C14_TotalAndEmptyToEmpty ==
  /\ [](pc = "done" /\ arg = <<>> => ret = <<>> /\ printed = <<>>)
  /\ (pc = "normalize") ~> (pc = "done")

\* The call for the empty string has returned, after all the rule passes.
C14_Witness ==
  /\ pc = "done"
  /\ arg = <<>>
  /\ pass = NumRules + 1
  /\ ret = <<>>
  /\ printed = <<>>

-----------------------------------------------------------------------------
(* What \b takes for a word boundary: lines 107-117.                       *)

MaxLenBoundary == 3

\* alpha, beta, sigma, tau, a space, a hyphen, a digit and an underscore.
BoundaryAlphabet == {alpha, beta, sigma, tau, 32, 45, 49, 95}

BoundaryInputs == Words(BoundaryAlphabet, MaxLenBoundary) \cup Examples

CallBoundary == pc = "idle" /\ \E s \in BoundaryInputs : Call(s)

NextBoundary == CallBoundary \/ Steps

SpecBoundary == Init /\ [][NextBoundary]_vars

\* A letter: a word character that is no digit, number or underscore.
IsLetter(c) == IsWord(c) /\ c \notin 48..57 /\ c # 95 /\ c # 11517

\* The digits and the underscore: word characters that are no letters.
DigitOrUnderscore == (48..57) \cup {95}

\* C15 as stated: an alpha or beta that is the last character of the text or
\* is followed by a character that is not a letter (a digit and an underscore
\* included) takes the boundary rule: alpha gives U+0259, beta gives "b".
\* Checked on the text right after the beta rules.
C15_Original ==
  pc = "rules" /\ pass = 10 =>
    \A i \in 1..Len(Lowered) :
      /\ Lowered[i] \in {alpha, beta}
      /\ i = Len(Lowered) \/ ~IsLetter(Lowered[i + 1])
      => text[PosAfterAlpha(Lowered, i)] = (IF Lowered[i] = alpha THEN 601 ELSE 98)

\* C15 (amended): a word boundary is what \b takes for one, and digits and
\* the underscore are word characters like the letters.  An alpha or beta
\* that is the last character of the text or is followed by a character that
\* is not a word character (a space, a hyphen) takes the boundary rule: alpha
\* gives U+0259, beta gives "b".  An alpha followed by a digit or an
\* underscore is not at a boundary and gives U+0251 U+02D0; a beta followed
\* by a digit or an underscore is left to char_map, which gives "b".
C15_BoundaryIsRegexBoundary ==
  /\ pc = "rules" /\ pass = 10 =>
       \A i \in 1..Len(Lowered) :
         LET p == PosAfterAlpha(Lowered, i)
         IN  /\ Lowered[i] = alpha /\ WordFinal(Lowered, i) => text[p] = 601
             /\ Lowered[i] = beta /\ WordFinal(Lowered, i) => text[p] = 98
             /\ i < Len(Lowered) /\ Lowered[i + 1] \in DigitOrUnderscore =>
                  /\ Lowered[i] = alpha => text[p] = 593 /\ text[p + 1] = 720
                  /\ Lowered[i] = beta => text[p] = beta
  /\ pc = "done" =>
       \A c \in DigitOrUnderscore :
         /\ arg = <<alpha, c>> => ret = <<593, 720, c>>
         /\ arg = <<beta, c>> => ret = <<98, c>>

\* alpha before a digit, then alpha at the end of the text.
C15_Witness ==
  /\ pc = "done"
  /\ arg = <<alpha, 49, alpha>>
  /\ ret = <<593, 720, 49, 601>>

-----------------------------------------------------------------------------
(* Letter case: lines 90 and 94.                                           *)

MaxLenCase == 3

\* Letters in both cases and in capitals only, a capital outside the Coptic
\* block, a Latin capital and a space.
CaseAlphabet ==
  {alpha, capAlpha, capBeta, capTheta, sigma, capSigma, capTi, 84, 32}

CaseInputs == Words(CaseAlphabet, MaxLenCase) \cup Examples

CallCase == pc = "idle" /\ \E s \in CaseInputs : Call(s)

NextCase == CallCase \/ Steps

SpecCase == Init /\ [][NextCase]_vars

\* s with every Coptic letter in lower case and every other character kept.
LowerCoptic(s) ==
  [i \in 1..Len(s) |->
     IF s[i] \in 994..1007 \/ InCopticBlock(s[i]) THEN LowerCp(s[i]) ELSE s[i]]

\* The values char_map holds for its upper-case keys ("TH", "A", ...).
UpperValues ==
  {char_map[k][2] : k \in {j \in 1..Len(char_map) : LowerCp(char_map[j][1]) # char_map[j][1]}}

\* C16: the case of the Coptic letters of the input does not show in the
\* output: the call returns what it returns for the input with its Coptic
\* letters in lower case, the rules see capitals as lower-case letters, and
\* no value of an upper-case char_map key occurs in the returned string.
C16_CaseNeverShows ==
  /\ pc = "map" => result = ApplyContextualRules(Lower(StripCombining(NFKD(LowerCoptic(arg)))))
  /\ pc = "done" =>
       /\ ret = Translit(char_map, LowerCoptic(arg))
       /\ \A v \in UpperValues : Occurrences(ret, v) = 0

\* Capital alpha, capital sigma and capital theta: the rule for alpha before
\* a final sigma has applied, and the value of theta is "th", not "TH".
C16_Witness ==
  /\ pc = "done"
  /\ arg = <<capTheta, capAlpha, capSigma>>
  /\ ret = <<116, 104, 230, 115>>

-----------------------------------------------------------------------------
(* The order of the beta rules: lines 112 and 114.                         *)

\* The passes 1..n of a list of rules rs, applied to t in the order of rs.
RECURSIVE ApplyRuleList(_, _, _)
ApplyRuleList(rs, n, t) ==
  IF n = 0 THEN t ELSE ReSub(rs[n], ApplyRuleList(rs, n - 1, t))

\* The rules with rule 6 (line 114) and rule 4 (line 112) in each other's
\* place.
RulesSixBeforeFour ==
  [n \in 1..NumRules |->
     IF n = 4 THEN Rules[6] ELSE IF n = 6 THEN Rules[4] ELSE Rules[n]]

\* What the call would return with rule 6 applied before rule 4.
RetSixBeforeFour ==
  BaseMap(char_map, ApplyRuleList(RulesSixBeforeFour, NumRules, Lowered))

\* C17: with rule 4 ahead of rule 6, a beta followed by iota mu at the end of
\* a word becomes "b" (beta iota mu gives "bim") and a beta followed by iota
\* anywhere else becomes "v"; with rule 6 ahead of rule 4 the same input
\* gives another string ("vim").
C17_BetaRuleOrderDecides ==
  /\ pc = "rules" /\ pass = 10 =>
       \A i \in 1..(Len(Lowered) - 1) :
         Lowered[i] = beta /\ Lowered[i + 1] = iota =>
           text[PosAfterAlpha(Lowered, i)] =
             (IF BeforeFinalIotaMu(Lowered, i) THEN 98 ELSE 118)
  /\ pc = "done" =>
       /\ arg = <<beta, iota, mu>> =>
            ret = <<98, 105, 109>> /\ RetSixBeforeFour = <<118, 105, 109>>
       /\ (\E i \in 1..Len(Lowered) :
             Lowered[i] = beta /\ BeforeFinalIotaMu(Lowered, i))
            => RetSixBeforeFour # ret

\* beta iota mu has been returned as "bim".
C17_Witness ==
  /\ pc = "done"
  /\ arg = <<beta, iota, mu>>
  /\ ret = <<98, 105, 109>>

-----------------------------------------------------------------------------
(* The order of the sequence rules: lines 133-137.                         *)

MaxLenSeq == 3

SeqAlphabet == {kappa, mu, nu, omicron, iota, alpha, upsilon, omega}

\* The five literal patterns of lines 133-137.
SeqPatterns == {SequenceRules[k].pat : k \in 1..Len(SequenceRules)}

\* Short words over the letters of the patterns, and every pattern followed
\* by every pattern.
SeqInputs ==
  Words(SeqAlphabet, MaxLenSeq)
    \cup {p \o q : p \in SeqPatterns, q \in SeqPatterns}
    \cup Examples

CallSeq == pc = "idle" /\ \E s \in SeqInputs : Call(s)

NextSeq == CallSeq \/ Steps

SpecSeq == Init /\ [][NextSeq]_vars

\* The number of the first sequence rule among the passes (17).
FirstSeqRule == NumRules - Len(SequenceRules) + 1

\* The sequence rules in the order a permutation p of their numbers gives.
SeqRulesInOrder(p) ==
  [k \in 1..Len(SequenceRules) |-> Rules[p[FirstSeqRule + k - 1]]]

\* C18: the five sequence passes commute: on the text that rules 1-16 have
\* produced, the five passes applied in any order give the text that the
\* code's order gives.
C18_SequencePassesCommute ==
  pc = "rules" /\ pass = NumRules + 1 =>
    LET before == RulesUpTo(FirstSeqRule - 1, Lowered)
    IN  \A p \in Permutations(FirstSeqRule..NumRules) :
          ApplyRuleList(SeqRulesInOrder(p), Len(SequenceRules), before) = text

\* kappa kappa followed by omicron upsilon omega: two of the passes have
\* rewritten the text.
C18_Witness ==
  /\ pc = "rules"
  /\ pass = NumRules + 1
  /\ arg = <<kappa, kappa, omicron, upsilon, omega>>
  /\ text = <<107, 107, 111, 39, 111>>

-----------------------------------------------------------------------------
(* Inputs made of mapped letters and whitespace.                           *)

MaxLenKeys == 2

\* The seven letters outside the Coptic block, three of their capitals,
\* letters of the block with and without rules, three capitals of the block,
\* and a space, a tab and a newline.
KeysAlphabet ==
  {shai, fai, khai, hori, gangia, shima, ti, capShai, capHori, capTi,
   alpha, beta, gamma, epsilon, eta, theta, iota, kappa, omicron, pi, sigma,
   capAlpha, capTheta, capOmega, 32, 9, 10}

\* Every key of char_map on its own, and short words over KeysAlphabet.
KeysInputs ==
  {<<CharMapItems[k][1]>> : k \in 1..Len(CharMapItems)}
    \cup Words(KeysAlphabet, MaxLenKeys)
    \cup Examples

CallKeys == pc = "idle" /\ \E s \in KeysInputs : Call(s)

NextKeys == CallKeys \/ Steps

SpecKeys == Init /\ [][NextKeys]_vars

Whitespace == {32, 9, 10}

\* C19: for an input made only of letters that have a char_map entry, in
\* either case, and whitespace, the returned string holds no char_map key and
\* no codepoint of the Coptic block, and nothing is printed.
C19_MappedLettersLeaveNoCoptic ==
  pc = "done" /\ Range(arg) \subseteq Keys \cup Whitespace =>
    /\ Range(ret) \cap Keys = {}
    /\ \A i \in 1..Len(ret) : ~InCopticBlock(ret[i])
    /\ unmapped = <<>>
    /\ printed = <<>>

\* Capital shai and ti, two of the letters outside the block, have been
\* returned as "sh" and "ti".
C19_Witness ==
  /\ pc = "done"
  /\ arg = <<capShai, ti>>
  /\ ret = <<115, 104, 116, 105>>
  /\ printed = <<>>

====
